---------------------------- MODULE Spec2Model ----------------------------
(***************************************************************************)
(* World Magnetic Model library (src/src/geomag.c, src/include/geomag.h). *)
(*                                                                         *)
(* Numbers.  The C code computes in IEEE doubles.  Here a double is an     *)
(* integer on a fixed-point grid:                                          *)
(*   - dimensionless factors (snorm, p, dp, k, sin/cos values, ar, dt,     *)
(*     the ellipsoid lengths in thousands of km) carry the factor Scale;   *)
(*   - field quantities (Gauss coefficients, bt, bp, br, X, Y, Z, H, F)    *)
(*     are whole nanotesla;                                                *)
(*   - angles (glat, glon, D, I, GV) are whole degrees.                    *)
(* Every product and quotient is rounded toward zero after each operation, *)
(* in the order the C expression evaluates it.                             *)
(*                                                                         *)
(* Degrees.  WMM_SIZE_STANDARD and WMM_SIZE_HIGH_RESOLUTION are 12 and 133 *)
(* in geomag.h; the model keeps the two resolutions and the relation       *)
(* WMM_MAX_SIZE = WMM_SIZE_HIGH_RESOLUTION + 1 but scales the degrees down *)
(* so that the tables can be enumerated.                                   *)
(***************************************************************************)
EXTENDS Integers, Sequences, FiniteSets, TLC

(* ------------------------------ bounds -------------------------------- *)
WMM_SIZE_STANDARD == 2
WMM_SIZE_HIGH_RESOLUTION == 3
WMM_MAX_SIZE == WMM_SIZE_HIGH_RESOLUTION + 1
MaxRecords == 2
MaxLoads == 2
NumThreads == 2

(* ------------------------- program constants -------------------------- *)
Scale == 1000
BLACKOUT_ZONE == 2000
CAUTION_ZONE == 6000
WGS84_A == 6378
WGS84_B == 6357
WGS84_RE == 6371
EndMarker == 9999
GV_NA == -999
LIFESPAN == 5
GV_LAT == 55
(* the value of storage that was never written (stack garbage) *)
Indet == -777777
(* the double +infinity *)
Infinity == 2147483647

(* ------------------------ fixed-point arithmetic ---------------------- *)
Abs(x) == IF x < 0 THEN -x ELSE x

Sgn(x) == IF x < 0 THEN -1 ELSE IF x > 0 THEN 1 ELSE 0

(* integer quotient rounded toward zero, y # 0 *)
TDiv(x, y) == Sgn(x) * Sgn(y) * (Abs(x) \div Abs(y))

(* product of a value and a Scale-d factor *)
FMul(x, f) == TDiv(x * f, Scale)

(* quotient of two values on the same grid, as a Scale-d factor;          *)
(* quotient of a value by a Scale-d factor, as a value                    *)
FDiv(x, y) == TDiv(x * Scale, y)

RECURSIVE SqrtIter(_, _, _)
SqrtIter(x, lo, hi) ==
    IF hi - lo <= 1 THEN lo
    ELSE LET mid == (lo + hi) \div 2
         IN  IF mid * mid <= x THEN SqrtIter(x, mid, hi) ELSE SqrtIter(x, lo, mid)

(* floor of the square root of a non-negative integer *)
ISqrt(x) == IF x <= 0 THEN 0 ELSE SqrtIter(x, 0, 46341)

(* sqrt() of a Scale-d factor, as a Scale-d factor *)
FSqrt(f) == ISqrt(f * Scale)

(* ------------------------------- GeoMag ------------------------------- *)
Idx == 0 .. (WMM_MAX_SIZE - 1)
Flat == 0 .. (WMM_MAX_SIZE * WMM_MAX_SIZE - 1)

Table2(v) == [i \in Idx |-> [j \in Idx |-> v]]

(* GeoMag geo_mag; declared and not yet initialised *)
UninitGeoMag ==
    [maxord |-> Indet, size |-> Indet, epoch |-> Indet,
     model |-> "?", release_date |-> "?",
     c |-> Table2(Indet), cd |-> Table2(Indet), k |-> Table2(Indet),
     fn |-> [i \in Idx |-> Indet], fm |-> [i \in Idx |-> Indet],
     p |-> [i \in Flat |-> Indet]]

Set2(t, i, j, v) == [t EXCEPT ![i][j] = v]

(* ----------------------------- model file ----------------------------- *)
(* A file is absent or holds a header of which fscanf converts hdr items   *)
(* (3 = complete) followed by records; a record fscanf cannot convert has  *)
(* ok = FALSE.                                                             *)
Rec(n, m, g, h, dg, dh) ==
    [ok |-> TRUE, n |-> n, m |-> m, gnm |-> g, hnm |-> h, dgnm |-> dg, dhnm |-> dh]

BadRec == [ok |-> FALSE, n |-> 0, m |-> 0, gnm |-> 0, hnm |-> 0, dgnm |-> 0, dhnm |-> 0]

MkFile(exists, hdr, epoch, model, release_date, recs) ==
    [exists |-> exists, hdr |-> hdr, epoch |-> epoch,
     model |-> model, release_date |-> release_date, recs |-> recs]

(* ------------------------- load_coefficients -------------------------- *)
(* header line: fscanf assigns the items it converts, in order             *)
ReadHeader(g, f) ==
    [g EXCEPT !.epoch = IF f.hdr >= 1 THEN f.epoch ELSE @,
              !.model = IF f.hdr >= 2 THEN f.model ELSE @,
              !.release_date = IF f.hdr >= 3 THEN f.release_date ELSE @]

ClearTables(g) ==
    [g EXCEPT !.c = Table2(0), !.cd = Table2(0), !.k = Table2(0)]

(* variant: the end marker is recognised only on a line "9999 0 ..." *)
IsEndMarkerStrict(r) == r.n = EndMarker /\ r.m = 0

IsEndMarker(r) == r.n = EndMarker

(* variant: a degree above maxord truncates as well *)
ExceedsMaxordOrDegree(g, r) == r.m > g.maxord \/ r.n > g.maxord

(* variant: the truncation test looks at the degree n *)
ExceedsMaxordByDegree(g, r) == r.n > g.maxord

ExceedsMaxord(g, r) == r.m > g.maxord

(* variant: a negative order is not rejected *)
CorruptRecordNoSignCheck(g, r) == r.m > r.n \/ r.n >= g.size \/ r.m >= g.size

(* variant: the order m <= n is not validated *)
CorruptRecordNoOrderCheck(g, r) == r.m < 0 \/ r.n >= g.size \/ r.m >= g.size

CorruptRecord(g, r) == r.m > r.n \/ r.m < 0 \/ r.n >= g.size \/ r.m >= g.size

(* variant: h(n, m) is stored in column m *)
StoreRecordHAtOrder(g, r) ==
    IF r.m <= r.n
    THEN LET c1  == Set2(g.c, r.m, r.n, r.gnm)
             cd1 == Set2(g.cd, r.m, r.n, r.dgnm)
         IN  IF r.m # 0
             THEN [g EXCEPT !.c = Set2(c1, r.n, r.m, r.hnm),
                            !.cd = Set2(cd1, r.n, r.m, r.dhnm)]
             ELSE [g EXCEPT !.c = c1, !.cd = cd1]
    ELSE g

StoreRecord(g, r) ==
    IF r.m <= r.n
    THEN LET c1  == Set2(g.c, r.m, r.n, r.gnm)
             cd1 == Set2(g.cd, r.m, r.n, r.dgnm)
         IN  IF r.m # 0
             THEN [g EXCEPT !.c = Set2(c1, r.n, r.m - 1, r.hnm),
                            !.cd = Set2(cd1, r.n, r.m - 1, r.dhnm)]
             ELSE [g EXCEPT !.c = c1, !.cd = cd1]
    ELSE g

(* the while (1) loop over the records; i is the next record to read.      *)
(* nread counts the records fscanf has consumed, stored the ones kept.     *)
RECURSIVE ReadRecords(_, _, _, _)
ReadRecords(g, recs, i, stored) ==
    IF i > Len(recs) THEN [geo |-> g, rc |-> 0, nread |-> i - 1, stored |-> stored]
    ELSE LET r == recs[i]
         IN  IF ~r.ok THEN [geo |-> g, rc |-> 0, nread |-> i, stored |-> stored]
             ELSE IF IsEndMarker(r) THEN [geo |-> g, rc |-> 0, nread |-> i, stored |-> stored]
             ELSE IF ExceedsMaxord(g, r) THEN [geo |-> g, rc |-> 0, nread |-> i, stored |-> stored]
             ELSE IF CorruptRecord(g, r) THEN [geo |-> g, rc |-> -1, nread |-> i, stored |-> stored]
             ELSE ReadRecords(StoreRecord(g, r), recs, i + 1, stored \cup {i})

(* variant: the h coefficients and their rates are left un-normalised *)
NormStepSkipH(st, n, m) ==
    LET g   == st.g
        sz  == g.size
        k1  == Set2(g.k, m, n, TDiv(((n - 1) * (n - 1) - m * m) * Scale,
                                     (2 * n - 1) * (2 * n - 3)))
        flnmj == TDiv(((n - m + 1) * st.j) * Scale, n + m)
        sn1 == IF m > 0
               THEN [st.snorm EXCEPT ![n + m * sz] = FMul(st.snorm[n + (m - 1) * sz], FSqrt(flnmj))]
               ELSE st.snorm
        s   == sn1[n + m * sz]
    IN  [g |-> [g EXCEPT !.k = k1, !.c = Set2(g.c, m, n, FMul(g.c[m][n], s)),
                         !.cd = Set2(g.cd, m, n, FMul(g.cd[m][n], s))],
         snorm |-> sn1,
         j |-> IF m > 0 THEN 1 ELSE st.j]

(* Schmidt normalisation: one pass of the inner while (D2 > 0) loop        *)
(* st = [g, snorm, j]                                                      *)
NormStep(st, n, m) ==
    LET g   == st.g
        sz  == g.size
        k1  == Set2(g.k, m, n, TDiv(((n - 1) * (n - 1) - m * m) * Scale,
                                     (2 * n - 1) * (2 * n - 3)))
        flnmj == TDiv(((n - m + 1) * st.j) * Scale, n + m)
        sn1 == IF m > 0
               THEN [st.snorm EXCEPT ![n + m * sz] = FMul(st.snorm[n + (m - 1) * sz], FSqrt(flnmj))]
               ELSE st.snorm
        s   == sn1[n + m * sz]
        c1  == IF m > 0 THEN Set2(g.c, n, m - 1, FMul(g.c[n][m - 1], s)) ELSE g.c
        cd1 == IF m > 0 THEN Set2(g.cd, n, m - 1, FMul(g.cd[n][m - 1], s)) ELSE g.cd
        c2  == Set2(c1, m, n, FMul(c1[m][n], s))
        cd2 == Set2(cd1, m, n, FMul(cd1[m][n], s))
    IN  [g |-> [g EXCEPT !.k = k1, !.c = c2, !.cd = cd2],
         snorm |-> sn1,
         j |-> IF m > 0 THEN 1 ELSE st.j]

RECURSIVE NormOrders(_, _, _)
NormOrders(st, n, m) ==
    IF m > n THEN st ELSE NormOrders(NormStep(st, n, m), n, m + 1)

RECURSIVE NormDegrees(_, _)
NormDegrees(st, n) ==
    IF n > st.g.maxord THEN st
    ELSE LET sn0 == [st.snorm EXCEPT ![n] = TDiv(st.snorm[n - 1] * (2 * n - 1), n)]
             st1 == NormOrders([st EXCEPT !.snorm = sn0, !.j = 2], n, 0)
             g1  == [st1.g EXCEPT !.fn[n] = n + 1, !.fm[n] = n]
         IN  NormDegrees([st1 EXCEPT !.g = g1], n + 1)

Normalize(g) ==
    LET st0 == [g |-> [g EXCEPT !.fm[0] = 0],
                snorm |-> [i \in Flat |-> IF i = 0 THEN Scale ELSE Indet],
                j |-> 2]
        st1 == NormDegrees(st0, 1)
    IN  [st1.g EXCEPT !.k = Set2(@, 1, 1, 0), !.p = st1.snorm]

load_coefficients(g, f) ==
    IF ~f.exists THEN [geo |-> g, rc |-> -1, nread |-> 0, stored |-> {}]
    ELSE IF f.hdr # 3 THEN [geo |-> ReadHeader(g, f), rc |-> -1, nread |-> 0, stored |-> {}]
    ELSE LET rd == ReadRecords(ClearTables(ReadHeader(g, f)), f.recs, 1, {})
         IN  IF rd.rc # 0 THEN rd
             ELSE [rd EXCEPT !.geo = Normalize(rd.geo)]

geomag_init(g, f, high_resolution) ==
    LET mo == IF high_resolution THEN WMM_SIZE_HIGH_RESOLUTION ELSE WMM_SIZE_STANDARD
    IN  load_coefficients([g EXCEPT !.maxord = mo, !.size = mo + 1], f)

(* --------------------------- trigonometry ----------------------------- *)
(* sin of 0..90 degrees on the Scale grid *)
SinTable ==
    << 0, 17, 35, 52, 70, 87, 105, 122, 139, 156, 174, 191, 208, 225, 242,
       259, 276, 292, 309, 326, 342, 358, 375, 391, 407, 423, 438, 454, 469,
       485, 500, 515, 530, 545, 559, 574, 588, 602, 616, 629, 643, 656, 669,
       682, 695, 707, 719, 731, 743, 755, 766, 777, 788, 799, 809, 819, 829,
       839, 848, 857, 866, 875, 883, 891, 899, 906, 914, 921, 927, 934, 940,
       946, 951, 956, 961, 966, 970, 974, 978, 982, 985, 988, 990, 993, 995,
       996, 998, 999, 999, 1000, 1000 >>

(* sin(DEG2RAD(d)) for -360 <= d <= 360 *)
SinDeg(d) ==
    LET a == Abs(d) % 360
        v == IF a <= 90 THEN SinTable[a + 1]
             ELSE IF a <= 180 THEN SinTable[180 - a + 1]
             ELSE IF a <= 270 THEN -SinTable[a - 180 + 1]
             ELSE -SinTable[360 - a + 1]
    IN  IF d < 0 THEN -v ELSE v

(* cos(DEG2RAD(d)) *)
CosDeg(d) == SinDeg(90 - Abs(d))

(* atan of y/x for x, y >= 0, in whole degrees 0..90 *)
AtanQ(y, x) ==
    CHOOSE d \in 0 .. 90 :
        /\ y * CosDeg(d) >= x * SinDeg(d)
        /\ \A e \in (d + 1) .. 90 : y * CosDeg(e) < x * SinDeg(e)

(* RAD2DEG(atan2(y, x)), in [-180, 180] *)
Atan2Deg(y, x) ==
    IF y = 0 THEN (IF x >= 0 THEN 0 ELSE 180)
    ELSE IF x = 0 THEN (IF y > 0 THEN 90 ELSE -90)
    ELSE LET q == AtanQ(Abs(y), Abs(x))
             a == IF x > 0 THEN q ELSE 180 - q
         IN  IF y > 0 THEN a ELSE -a

(* -------------------------- geomag_calculate -------------------------- *)
UninitResult ==
    [time |-> Indet, alt |-> Indet, glat |-> Indet, glon |-> Indet,
     x |-> Indet, y |-> Indet, z |-> Indet, h |-> Indet, f |-> Indet,
     i |-> Indet, d |-> Indet, gv |-> Indet,
     in_blackout_zone |-> FALSE, in_caution_zone |-> FALSE,
     is_high_resolution |-> FALSE]

(* lines 157-163 *)
InitResult(g, a) ==
    [UninitResult EXCEPT !.time = a.time, !.alt = a.alt, !.glat = a.glat,
                         !.glon = a.glon, !.in_blackout_zone = FALSE,
                         !.in_caution_zone = FALSE,
                         !.is_high_resolution = (g.maxord = WMM_SIZE_HIGH_RESOLUTION)]

(* variant: the end of the life span is excluded *)
OutsideLifespanHalfOpen(dt) == dt < 0 \/ dt >= LIFESPAN * Scale

(* dt < 0.0 || dt > 5.0 *)
OutsideLifespan(dt) == dt < 0 \/ dt > LIFESPAN * Scale

DateRejected(g, a) == ~a.allow /\ OutsideLifespan(a.time - g.epoch)

(* sp[m], cp[m] for m = 2 .. maxord *)
RECURSIVE LonMultiples(_, _, _)
LonMultiples(t, m, maxord) ==
    IF m > maxord THEN t
    ELSE LonMultiples(
           [sp |-> [t.sp EXCEPT ![m] = FMul(t.sp[1], t.cp[m - 1]) + FMul(t.cp[1], t.sp[m - 1])],
            cp |-> [t.cp EXCEPT ![m] = FMul(t.cp[1], t.cp[m - 1]) - FMul(t.sp[1], t.sp[m - 1])]],
           m + 1, maxord)

(* lines 165-229 and the head of the first pass of the for loop: the       *)
(* locals of one call when it enters the main loop                         *)
Prepare(g, a) ==
    LET a2 == FMul(WGS84_A, WGS84_A)
        b2 == FMul(WGS84_B, WGS84_B)
        c2 == a2 - b2
        a4 == FMul(a2, a2)
        b4 == FMul(b2, b2)
        c4 == a4 - b4
        srlon == SinDeg(a.glon)
        srlat == SinDeg(a.glat)
        crlon == CosDeg(a.glon)
        crlat == CosDeg(a.glat)
        srlat2 == FMul(srlat, srlat)
        crlat2 == FMul(crlat, crlat)
        q  == FSqrt(a2 - FMul(c2, srlat2))
        q1 == FMul(a.alt, q)
        qq == FDiv(q1 + a2, q1 + b2)
        q2 == FMul(qq, qq)
        ct == FDiv(srlat, FSqrt(FMul(q2, crlat2) + srlat2))
        st == FSqrt(Scale - FMul(ct, ct))
        r2 == FMul(a.alt, a.alt) + 2 * q1 + FDiv(a4 - FMul(c4, srlat2), FMul(q, q))
        r  == FSqrt(r2)
        d  == FSqrt(FMul(a2, crlat2) + FMul(b2, srlat2))
        ca == FDiv(a.alt + d, r)
        sa == FDiv(FMul(FMul(c2, crlat), srlat), FMul(r, d))
        sc == LonMultiples(
                [sp |-> [i \in Idx |-> IF i = 0 THEN 0 ELSE IF i = 1 THEN srlon ELSE Indet],
                 cp |-> [i \in Idx |-> IF i = 0 THEN Scale ELSE IF i = 1 THEN crlon ELSE Indet]],
                2, g.maxord)
        aor == FDiv(WGS84_RE, r)
    IN  [n |-> 1, m |-> 0, D4 |-> 2,
         dt |-> a.time - g.epoch,
         st |-> st, ct |-> ct, ca |-> ca, sa |-> sa,
         aor |-> aor, ar |-> FMul(FMul(aor, aor), aor),
         sp |-> sc.sp, cp |-> sc.cp,
         pp |-> [i \in Idx |-> IF i = 0 THEN Scale ELSE Indet],
         dp |-> Set2(Table2(Indet), 0, 0, 0),
         tc |-> Table2(Indet),
         bt |-> 0, bp |-> 0, br |-> 0, bpp |-> 0]

(* variant: the pass (1, 0) scales the cell it writes instead of p[0] *)
LegendrePInPlace(p, k, sz, n, m, st, ct) ==
    IF n = m
    THEN [p EXCEPT ![n + m * sz] = FMul(st, p[n - 1 + (m - 1) * sz])]
    ELSE IF n = 1 /\ m = 0
    THEN [p EXCEPT ![n + m * sz] = FMul(ct, p[n + m * sz])]
    ELSE IF n > 1 /\ n # m
    THEN LET p0 == IF m > n - 2 THEN [p EXCEPT ![n - 2 + m * sz] = 0] ELSE p
         IN  [p0 EXCEPT ![n + m * sz] =
                  FMul(ct, p0[n - 1 + m * sz]) - FMul(k[m][n], p0[n - 2 + m * sz])]
    ELSE p

(* lines 240-257: geo_mag->p after the Legendre step of pass (n, m) *)
LegendreP(p, k, sz, n, m, st, ct) ==
    IF n = m
    THEN [p EXCEPT ![n + m * sz] = FMul(st, p[n - 1 + (m - 1) * sz])]
    ELSE IF n = 1 /\ m = 0
    THEN [p EXCEPT ![n + m * sz] = FMul(ct, p[n - 1 + m * sz])]
    ELSE IF n > 1 /\ n # m
    THEN LET p0 == IF m > n - 2 THEN [p EXCEPT ![n - 2 + m * sz] = 0] ELSE p
         IN  [p0 EXCEPT ![n + m * sz] =
                  FMul(ct, p0[n - 1 + m * sz]) - FMul(k[m][n], p0[n - 2 + m * sz])]
    ELSE p

(* lines 240-257: the local dp after the Legendre step of pass (n, m);     *)
(* p is geo_mag->p after the same pass wrote it                            *)
LegendreDp(dp, p, k, sz, n, m, st, ct) ==
    IF n = m
    THEN Set2(dp, m, n, FMul(st, dp[m - 1][n - 1]) + FMul(ct, p[n - 1 + (m - 1) * sz]))
    ELSE IF n = 1 /\ m = 0
    THEN Set2(dp, m, n, FMul(ct, dp[m][n - 1]) - FMul(st, p[n - 1 + m * sz]))
    ELSE IF n > 1 /\ n # m
    THEN LET d0 == IF m > n - 2 THEN Set2(dp, m, n - 2, 0) ELSE dp
         IN  Set2(d0, m, n, FMul(ct, d0[m][n - 1]) - FMul(st, p[n - 1 + m * sz])
                            - FMul(k[m][n], d0[m][n - 2]))
    ELSE dp

(* lines 259-263 *)
TimeAdjust(tc, g, n, m, dt) ==
    LET t1 == Set2(tc, m, n, g.c[m][n] + FMul(g.cd[m][n], dt))
    IN  IF m # 0
        THEN Set2(t1, n, m - 1, g.c[n][m - 1] + FMul(g.cd[n][m - 1], dt))
        ELSE t1

(* lines 282-290: pp after the pole step of pass (n, 1) *)
PoleStep(pp, k, n, m, ct) ==
    IF n = 1 THEN [pp EXCEPT ![n] = pp[n - 1]]
    ELSE [pp EXCEPT ![n] = FMul(ct, pp[n - 1]) - FMul(k[m][n], pp[n - 2])]

(* variant: D4 starts at n, so the pass m = n of each degree is dropped *)
AdvanceShortRow(l) ==
    IF l.D4 - 1 > 0
    THEN [l EXCEPT !.D4 = l.D4 - 1, !.m = l.m + 1]
    ELSE [l EXCEPT !.n = l.n + 1, !.m = 0, !.D4 = l.n + 1, !.ar = FMul(l.ar, l.aor)]

(* lines 292-293 and the for-loop header: the loop variables after a pass  *)
Advance(l) ==
    IF l.D4 - 1 > 0
    THEN [l EXCEPT !.D4 = l.D4 - 1, !.m = l.m + 1]
    ELSE [l EXCEPT !.n = l.n + 1, !.m = 0, !.D4 = l.n + 2, !.ar = FMul(l.ar, l.aor)]

(* variant: the time-adjusted coefficients are written back into the     *)
(* coefficient table of the model                                         *)
LoopBodyAdjustInPlace(g, l) ==
    LET n  == l.n
        m  == l.m
        sz == g.size
        p1 == LegendreP(g.p, g.k, sz, n, m, l.st, l.ct)
        dp1 == LegendreDp(l.dp, p1, g.k, sz, n, m, l.st, l.ct)
        tc1 == TimeAdjust(l.tc, g, n, m, l.dt)
        par == FMul(l.ar, p1[n + m * sz])
        temp1 == IF m = 0 THEN FMul(tc1[m][n], l.cp[m])
                 ELSE FMul(tc1[m][n], l.cp[m]) + FMul(tc1[n][m - 1], l.sp[m])
        temp2 == IF m = 0 THEN FMul(tc1[m][n], l.sp[m])
                 ELSE FMul(tc1[m][n], l.sp[m]) - FMul(tc1[n][m - 1], l.cp[m])
        pole == l.st = 0 /\ m = 1
        pp1 == IF pole THEN PoleStep(l.pp, g.k, n, m, l.ct) ELSE l.pp
        l1 == [l EXCEPT !.dp = dp1, !.tc = tc1, !.pp = pp1,
                        !.bt = l.bt - FMul(FMul(temp1, l.ar), dp1[m][n]),
                        !.bp = l.bp + FMul(g.fm[m] * temp2, par),
                        !.br = l.br + FMul(g.fn[n] * temp1, par),
                        !.bpp = IF pole
                                THEN l.bpp + FMul(g.fm[m] * temp2, FMul(l.ar, pp1[n]))
                                ELSE l.bpp]
        c1 == Set2(g.c, m, n, tc1[m][n])
        c2 == IF m # 0 THEN Set2(c1, n, m - 1, tc1[n][m - 1]) ELSE c1
    IN  [g |-> [g EXCEPT !.p = p1, !.c = c2], l |-> Advance(l1)]

(* one pass of the while (D4 > 0) loop, lines 238-294, on the shared       *)
(* model g and the locals l of the call                                    *)
LoopBody(g, l) ==
    LET n  == l.n
        m  == l.m
        sz == g.size
        p1 == LegendreP(g.p, g.k, sz, n, m, l.st, l.ct)
        dp1 == LegendreDp(l.dp, p1, g.k, sz, n, m, l.st, l.ct)
        tc1 == TimeAdjust(l.tc, g, n, m, l.dt)
        par == FMul(l.ar, p1[n + m * sz])
        temp1 == IF m = 0 THEN FMul(tc1[m][n], l.cp[m])
                 ELSE FMul(tc1[m][n], l.cp[m]) + FMul(tc1[n][m - 1], l.sp[m])
        temp2 == IF m = 0 THEN FMul(tc1[m][n], l.sp[m])
                 ELSE FMul(tc1[m][n], l.sp[m]) - FMul(tc1[n][m - 1], l.cp[m])
        pole == l.st = 0 /\ m = 1
        pp1 == IF pole THEN PoleStep(l.pp, g.k, n, m, l.ct) ELSE l.pp
        l1 == [l EXCEPT !.dp = dp1, !.tc = tc1, !.pp = pp1,
                        !.bt = l.bt - FMul(FMul(temp1, l.ar), dp1[m][n]),
                        !.bp = l.bp + FMul(g.fm[m] * temp2, par),
                        !.br = l.br + FMul(g.fn[n] * temp1, par),
                        !.bpp = IF pole
                                THEN l.bpp + FMul(g.fm[m] * temp2, FMul(l.ar, pp1[n]))
                                ELSE l.bpp]
    IN  [g |-> [g EXCEPT !.p = p1], l |-> Advance(l1)]

(* lines 316-331 *)
GridVariationRaw(glat, glon, d) ==
    IF glat > 0 /\ glon >= 0 THEN d - glon
    ELSE IF glat > 0 /\ glon < 0 THEN d + Abs(glon)
    ELSE IF glat < 0 /\ glon >= 0 THEN d + glon
    ELSE IF glat < 0 /\ glon < 0 THEN d - Abs(glon)
    ELSE GV_NA

(* variant: +180 is wrapped as well *)
WrapGvEager(gv) ==
    IF gv >= 180 THEN gv - 360
    ELSE IF gv < -180 THEN gv + 360
    ELSE gv

WrapGv(gv) ==
    IF gv > 180 THEN gv - 360
    ELSE IF gv < -180 THEN gv + 360
    ELSE gv

(* variant: the polar cap starts above 55 degrees *)
GridVariationStrictLat(glat, glon, d) ==
    IF Abs(glat) > GV_LAT THEN WrapGv(GridVariationRaw(glat, glon, d)) ELSE GV_NA

GridVariation(glat, glon, d) ==
    IF Abs(glat) >= GV_LAT THEN WrapGv(GridVariationRaw(glat, glon, d)) ELSE GV_NA

InBlackout(h) == h < BLACKOUT_ZONE

(* variant: the caution threshold is inclusive *)
InCautionInclusive(h) == ~(h < BLACKOUT_ZONE) /\ h <= CAUTION_ZONE

InCaution(h) == ~(h < BLACKOUT_ZONE) /\ h < CAUTION_ZONE

(* variant: the caution zone is never raised *)
ZoneReturnCautionSilent(h, raise) ==
    IF h < BLACKOUT_ZONE THEN (IF raise THEN -2 ELSE 0) ELSE 0

ZoneReturn(h, raise) ==
    IF h < BLACKOUT_ZONE THEN (IF raise THEN -2 ELSE 0)
    ELSE IF h < CAUTION_ZONE THEN (IF raise THEN -3 ELSE 0)
    ELSE 0

(* variant: the vertical component is projected with the cosine *)
FinishZFromCosine(res, l, a) ==
    LET bp == IF l.st = 0 THEN l.bpp ELSE FDiv(l.bp, l.st)
        bx == -FMul(l.bt, l.ca) - FMul(l.br, l.sa)
        by == bp
        bz == FMul(l.bt, l.sa) - FMul(l.br, l.ca)
        bh == ISqrt(bx * bx + by * by)
        f  == ISqrt(bh * bh + bz * bz)
        d  == Atan2Deg(by, bx)
        i  == Atan2Deg(bz, bh)
        h  == FMul(f, CosDeg(i))
    IN  [res |-> [res EXCEPT !.f = f, !.d = d, !.i = i,
                             !.gv = GridVariation(a.glat, a.glon, d),
                             !.x = FMul(FMul(f, CosDeg(d)), CosDeg(i)),
                             !.y = FMul(FMul(f, CosDeg(i)), SinDeg(d)),
                             !.z = FMul(f, CosDeg(i)),
                             !.h = h,
                             !.in_blackout_zone = InBlackout(h),
                             !.in_caution_zone = InCaution(h)],
         ret |-> ZoneReturn(h, a.raise)]

(* lines 297-355: the result and the return code once the loop is over *)
Finish(res, l, a) ==
    LET bp == IF l.st = 0 THEN l.bpp ELSE FDiv(l.bp, l.st)
        bx == -FMul(l.bt, l.ca) - FMul(l.br, l.sa)
        by == bp
        bz == FMul(l.bt, l.sa) - FMul(l.br, l.ca)
        bh == ISqrt(bx * bx + by * by)
        f  == ISqrt(bh * bh + bz * bz)
        d  == Atan2Deg(by, bx)
        i  == Atan2Deg(bz, bh)
        h  == FMul(f, CosDeg(i))
    IN  [res |-> [res EXCEPT !.f = f, !.d = d, !.i = i,
                             !.gv = GridVariation(a.glat, a.glon, d),
                             !.x = FMul(FMul(f, CosDeg(d)), CosDeg(i)),
                             !.y = FMul(FMul(f, CosDeg(i)), SinDeg(d)),
                             !.z = FMul(f, SinDeg(i)),
                             !.h = h,
                             !.in_blackout_zone = InBlackout(h),
                             !.in_caution_zone = InCaution(h)],
         ret |-> ZoneReturn(h, a.raise)]

(* a whole call on a model no other call touches *)
RECURSIVE RunLoop(_, _)
RunLoop(g, l) ==
    IF l.n > g.maxord THEN [g |-> g, l |-> l]
    ELSE LET b == LoopBody(g, l)
         IN  RunLoop(b.g, b.l)

geomag_calculate(g, a) ==
    IF DateRejected(g, a) THEN [geo |-> g, res |-> InitResult(g, a), ret |-> -1]
    ELSE LET e == RunLoop(g, Prepare(g, a))
             f == Finish(InitResult(g, a), e.l, a)
         IN  [geo |-> e.g, res |-> f.res, ret |-> f.ret]

(* -------------------- geomag_calculate_uncertainty -------------------- *)
WMM_MODEL_2015_LOWER == 2015 * Scale
WMM_MODEL_2015_UPPER == 2020 * Scale
WMM_MODEL_2020_LOWER == 2020 * Scale
WMM_MODEL_2020_UPPER == 2025 * Scale
WMM_MODEL_2025_LOWER == 2025 * Scale
WMM_MODEL_2025_UPPER == 2030 * Scale

(* GeoMagUncertainty uncertainty; declared and not yet written *)
UninitUncertainty ==
    [x |-> Indet, y |-> Indet, z |-> Indet, h |-> Indet, f |-> Indet,
     i |-> Indet, d |-> Indet]

(* the conditions of the if / else-if chain, lines 364, 384 and 393 *)
InWindow2025(time) == time >= WMM_MODEL_2025_LOWER /\ time <= WMM_MODEL_2025_UPPER

InWindow2020(time) == time >= WMM_MODEL_2020_LOWER /\ time <= WMM_MODEL_2020_UPPER

(* variant: the lower end of the earliest window is excluded *)
InWindow2015OpenLower(time) == time > WMM_MODEL_2015_LOWER /\ time < WMM_MODEL_2015_UPPER

InWindow2015(time) == time >= WMM_MODEL_2015_LOWER /\ time < WMM_MODEL_2015_UPPER

(* sqrt(a * a + (b / h) * (b / h)): a in degrees on the Scale grid, b and h *)
(* in nT; b / 0.0 is +infinity. Above 40000 the term a * a is below the    *)
(* grid and the root is the quotient.                                      *)
DeclinationUncertainty(a, b, h) ==
    IF h = 0 THEN Infinity
    ELSE LET q == TDiv(b * Scale, h)
         IN  IF Abs(q) > 40000 THEN Abs(q) ELSE ISqrt(a * a + q * q)

(* the constants each branch assigns; w names the branch *)
ErrorModel(w, hr, h) ==
    IF w = "2025" /\ hr
    THEN [x |-> 135, y |-> 85, z |-> 134, h |-> 130, f |-> 134, i |-> 190,
          d |-> DeclinationUncertainty(250, 5205, h)]
    ELSE IF w = "2025"
    THEN [x |-> 137, y |-> 89, z |-> 141, h |-> 133, f |-> 138, i |-> 200,
          d |-> DeclinationUncertainty(260, 5417, h)]
    ELSE IF w = "2020"
    THEN [x |-> 131, y |-> 94, z |-> 157, h |-> 128, f |-> 148, i |-> 210,
          d |-> DeclinationUncertainty(260, 5625, h)]
    ELSE [x |-> 138, y |-> 89, z |-> 165, h |-> 133, f |-> 152, i |-> 220,
          d |-> DeclinationUncertainty(230, 5430, h)]

(* u is the caller's struct as the call finds it *)
geomag_calculate_uncertainty(res, u) ==
    IF InWindow2025(res.time)
    THEN [unc |-> ErrorModel("2025", res.is_high_resolution, res.h), ret |-> 0]
    ELSE IF InWindow2020(res.time)
    THEN [unc |-> ErrorModel("2020", res.is_high_resolution, res.h), ret |-> 0]
    ELSE IF InWindow2015(res.time)
    THEN [unc |-> ErrorModel("2015", res.is_high_resolution, res.h), ret |-> 0]
    ELSE [unc |-> u, ret |-> -1]

(* ------------------------------ inputs -------------------------------- *)
Epoch == 2025 * Scale

(* coefficient files the evaluations run on *)
EvalFile(recs) == MkFile(TRUE, 3, Epoch, "WMM-2025", "11/13/2024", recs)

(* axial dipoles whose horizontal intensity at the equator sits on the     *)
(* zone thresholds at the epoch                                            *)
Dipole2000File == EvalFile(<< Rec(1, 0, -2016, 0, -1000, 0), Rec(9999, 0, 0, 0, 0, 0) >>)

Dipole6000File == EvalFile(<< Rec(1, 0, -6044, 0, -1000, 0), Rec(9999, 0, 0, 0, 0, 0) >>)

TiltedFile == EvalFile(<< Rec(1, 0, -3000, 0, 10, 0), Rec(1, 1, -1500, 4000, 5, -20) >>)

QuadFile == EvalFile(<< Rec(1, 1, -300, -900, 0, 0), Rec(2, 0, -2000, 0, 0, 0) >>)

EmptyFile == EvalFile(<< >>)

MissingFile == MkFile(FALSE, 0, 0, "", "", << >>)

EvalFiles ==
    {Dipole2000File, Dipole6000File, TiltedFile, QuadFile, EmptyFile, MissingFile}

Lats == {-90, -55, 0, 54, 55, 90}
Lons == {-180, -90, 0, 180}
Alts == {0}
Times == {Epoch - 1, Epoch, Epoch + LIFESPAN * Scale, Epoch + LIFESPAN * Scale + 1}

MkArgs(glat, glon, alt, time, allow, raise) ==
    [glat |-> glat, glon |-> glon, alt |-> alt, time |-> time,
     allow |-> allow, raise |-> raise]

EvalArgs ==
    {MkArgs(la, lo, al, ti, aw, ra) :
        la \in Lats, lo \in Lons, al \in Alts, ti \in Times,
        aw \in BOOLEAN, ra \in BOOLEAN}

(* ------------------------------- state -------------------------------- *)
Threads == 1 .. NumThreads

VARIABLES
    geo_mag,   \* the caller's GeoMag struct, shared by every call
    last,      \* the last geomag_init call: its inputs, return code, progress
    at_load,   \* geo_mag as the last successful geomag_init left it
    pc,        \* per calling thread: "idle", "loop", "finish", "done"
    args,      \* per thread: the arguments of its geomag_calculate call
    loc,       \* per thread: the locals of the call (stack)
    result,    \* per thread: the caller's GeoMagResult
    ret,       \* per thread: the return value of the call
    at_call,   \* per thread: geo_mag as the call found it
    uncertainty, \* per thread: the caller's GeoMagUncertainty
    uret       \* per thread: the return value of geomag_calculate_uncertainty

vars == << geo_mag, last, at_load, pc, args, loc, result, ret, at_call, uncertainty, uret >>

NoArgs == MkArgs(0, 0, 0, 0, FALSE, FALSE)
NoLoc == [n |-> 0]
(* int ret; not yet assigned *)
NoRet == Indet

NoInit ==
    [gen |-> 0, file |-> MissingFile, hr |-> FALSE, before |-> UninitGeoMag,
     rc |-> NoRet, nread |-> 0, stored |-> {}]

Init ==
    /\ geo_mag = UninitGeoMag
    /\ last = NoInit
    /\ at_load = UninitGeoMag
    /\ pc = [t \in Threads |-> "idle"]
    /\ args = [t \in Threads |-> NoArgs]
    /\ loc = [t \in Threads |-> NoLoc]
    /\ result = [t \in Threads |-> UninitResult]
    /\ ret = [t \in Threads |-> NoRet]
    /\ at_call = [t \in Threads |-> UninitGeoMag]
    /\ uncertainty = [t \in Threads |-> UninitUncertainty]
    /\ uret = [t \in Threads |-> NoRet]

AllIdle == \A t \in Threads : pc[t] = "idle"

(* geomag_init(&geo_mag, file, high_resolution), while no call is running *)
Load(f, hr) ==
    /\ AllIdle
    /\ LET o == geomag_init(geo_mag, f, hr)
       IN  /\ geo_mag' = o.geo
           /\ last' = [gen |-> last.gen + 1, file |-> f, hr |-> hr, before |-> geo_mag,
                       rc |-> o.rc, nread |-> o.nread, stored |-> o.stored]
           /\ at_load' = IF o.rc = 0 THEN o.geo ELSE at_load
    /\ UNCHANGED << pc, args, loc, result, ret, at_call, uncertainty, uret >>

(* geomag_calculate up to the main loop (lines 152-236) *)
CalcBegin(t, a) ==
    /\ pc[t] = "idle"
    /\ last.rc = 0
    /\ args' = [args EXCEPT ![t] = a]
    /\ at_call' = [at_call EXCEPT ![t] = geo_mag]
    /\ result' = [result EXCEPT ![t] = InitResult(geo_mag, a)]
    /\ IF DateRejected(geo_mag, a)
       THEN /\ pc' = [pc EXCEPT ![t] = "done"]
            /\ ret' = [ret EXCEPT ![t] = -1]
            /\ loc' = loc
       ELSE /\ pc' = [pc EXCEPT ![t] = "loop"]
            /\ ret' = ret
            /\ loc' = [loc EXCEPT ![t] = Prepare(geo_mag, a)]
    /\ UNCHANGED << geo_mag, last, at_load, uncertainty, uret >>

(* one pass of the main loop (lines 238-294) *)
CalcStep(t) ==
    /\ pc[t] = "loop"
    /\ loc[t].n <= geo_mag.maxord
    /\ LET b == LoopBody(geo_mag, loc[t])
       IN  /\ geo_mag' = b.g
           /\ loc' = [loc EXCEPT ![t] = b.l]
    /\ UNCHANGED << last, at_load, pc, args, result, ret, at_call, uncertainty, uret >>

(* the loop is over: derived quantities, zones, return (lines 297-355) *)
CalcFinish(t) ==
    /\ pc[t] = "loop"
    /\ loc[t].n > geo_mag.maxord
    /\ LET f == Finish(result[t], loc[t], args[t])
       IN  /\ result' = [result EXCEPT ![t] = f.res]
           /\ ret' = [ret EXCEPT ![t] = f.ret]
    /\ pc' = [pc EXCEPT ![t] = "done"]
    /\ loc' = [loc EXCEPT ![t] = NoLoc]
    /\ UNCHANGED << geo_mag, last, at_load, args, at_call, uncertainty, uret >>

(* the caller has consumed the result; its stack frame is gone *)
Return(t) ==
    /\ pc[t] = "done"
    /\ pc' = [pc EXCEPT ![t] = "idle"]
    /\ args' = [args EXCEPT ![t] = NoArgs]
    /\ result' = [result EXCEPT ![t] = UninitResult]
    /\ ret' = [ret EXCEPT ![t] = NoRet]
    /\ at_call' = [at_call EXCEPT ![t] = UninitGeoMag]
    /\ uncertainty' = [uncertainty EXCEPT ![t] = UninitUncertainty]
    /\ uret' = [uret EXCEPT ![t] = NoRet]
    /\ UNCHANGED << geo_mag, last, at_load, loc >>

(* geomag_calculate_uncertainty(&result, &uncertainty) on the result of a  *)
(* call that returned 0 (test_geomag.c:167-175)                            *)
CalcUncertainty(t) ==
    /\ pc[t] = "done"
    /\ ret[t] = 0
    /\ uret[t] = NoRet
    /\ LET o == geomag_calculate_uncertainty(result[t], uncertainty[t])
       IN  /\ uncertainty' = [uncertainty EXCEPT ![t] = o.unc]
           /\ uret' = [uret EXCEPT ![t] = o.ret]
    /\ UNCHANGED << geo_mag, last, at_load, pc, args, loc, result, ret, at_call >>

(* the first geomag_init on a fresh struct *)
FirstLoad(f, hr) == last.gen = 0 /\ Load(f, hr)

(* one caller: a load, then evaluations in sequence *)
Next ==
    \/ \E f \in EvalFiles, hr \in BOOLEAN : FirstLoad(f, hr)
    \/ \E a \in EvalArgs : CalcBegin(1, a)
    \/ CalcStep(1)
    \/ CalcFinish(1)
    \/ Return(1)

Spec == Init /\ [][Next]_vars

(* two or more callers share the loaded model without locking, one call   *)
(* each                                                                    *)
ConcFiles == {QuadFile}

ConcArgs ==
    {MkArgs(0, 0, 0, Epoch, FALSE, FALSE),
     MkArgs(90, 0, 0, Epoch, FALSE, FALSE),
     MkArgs(55, -90, 0, Epoch, FALSE, FALSE)}

NextConc ==
    \/ \E f \in ConcFiles : FirstLoad(f, FALSE)
    \/ \E t \in Threads, a \in ConcArgs : CalcBegin(t, a)
    \/ \E t \in Threads : CalcStep(t)
    \/ \E t \in Threads : CalcFinish(t)

SpecConc == Init /\ [][NextConc]_vars

(* the loader alone: a first load, then a second geomag_init on the same   *)
(* struct from any file over the record alphabet                           *)
RecA(n, m) == Rec(n, m, 1000, 500, 10, 20)

LoadRecords ==
    {RecA(1, 0), RecA(1, 1), Rec(1, 1, -300, 900, 0, 0),
     RecA(WMM_SIZE_STANDARD, WMM_SIZE_STANDARD),
     RecA(EndMarker, 0), RecA(EndMarker, 1),
     RecA(1, WMM_SIZE_STANDARD), RecA(1, -1),
     RecA(1, WMM_SIZE_STANDARD + 1),
     RecA(WMM_SIZE_STANDARD + 1, 0),
     RecA(WMM_SIZE_STANDARD + 1, WMM_SIZE_STANDARD + 1),
     RecA(WMM_MAX_SIZE, 0), RecA(WMM_MAX_SIZE, WMM_MAX_SIZE),
     BadRec}

(* a file with one record for every pair 1 <= n <= mo, 0 <= m <= n, in the *)
(* order of the WMM files, every value different                           *)
DegreeOf(i) == CHOOSE n \in 1 .. i : (n - 1) * (n + 2) < 2 * i /\ 2 * i <= n * (n + 3)

FullRecords(mo) ==
    [i \in 1 .. ((mo * (mo + 3)) \div 2) |->
        LET n == DegreeOf(i)
            m == i - 1 - ((n - 1) * (n + 2)) \div 2
        IN  Rec(n, m, 100 * i + 7, -(100 * i + 13), 2 * i + 1, -(2 * i))]

FullFile(mo) ==
    MkFile(TRUE, 3, Epoch - LIFESPAN * Scale, "WMM-2020", "12/10/2019", FullRecords(mo))

LoadFiles ==
    {MissingFile, FullFile(WMM_SIZE_STANDARD), FullFile(WMM_SIZE_HIGH_RESOLUTION)}
        \cup {MkFile(TRUE, h, Epoch - LIFESPAN * Scale, "WMM-2020", "12/10/2019", << >>) : h \in 0 .. 2}
        \cup {MkFile(TRUE, 3, Epoch - LIFESPAN * Scale, "WMM-2020", "12/10/2019", recs) :
                 recs \in UNION {[1 .. j -> LoadRecords] : j \in 0 .. MaxRecords}}

SeedFiles == {TiltedFile, MissingFile}

(* geomag_init on a struct an earlier geomag_init has written *)
Reload(f, hr) == last.gen = 1 /\ Load(f, hr)

NextLoad ==
    \/ \E f \in SeedFiles, hr \in BOOLEAN : FirstLoad(f, hr)
    \/ \E f \in LoadFiles, hr \in BOOLEAN : Reload(f, hr)

SpecLoad == Init /\ [][NextLoad]_vars

(* one caller that loads, evaluates, and loads again into the same struct  *)
(* (examples/example.c); a failed geomag_init ends the caller              *)
CorruptFile == EvalFile(<< Rec(1, 0, -3000, 0, 10, 0), Rec(1, 2, 700, 700, 7, 7) >>)

SectorialFile ==
    EvalFile(<< Rec(1, 0, -3000, 0, 10, 0), Rec(2, 1, 3000, -2400, 20, -10),
                Rec(2, 2, 1600, -700, 0, 10) >>)

SeqFiles == {TiltedFile, SectorialFile, CorruptFile, MissingFile}

SeqArgs ==
    {MkArgs(0, 0, 0, Epoch, FALSE, FALSE),
     MkArgs(55, -90, 0, Epoch + LIFESPAN * Scale, FALSE, FALSE),
     MkArgs(90, 0, 0, Epoch + Scale, FALSE, FALSE)}

NextInit(f, hr) ==
    /\ last.gen < MaxLoads
    /\ last.gen > 0 => last.rc = 0
    /\ Load(f, hr)

NextSeq ==
    \/ \E f \in SeqFiles, hr \in BOOLEAN : NextInit(f, hr)
    \/ \E a \in SeqArgs : CalcBegin(1, a)
    \/ CalcStep(1)
    \/ CalcFinish(1)
    \/ Return(1)

SpecSeq == Init /\ [][NextSeq]_vars

(* a call that has started keeps running: nothing in geomag_calculate      *)
(* waits for another thread, a lock or input. This is the weak fairness    *)
(* WF_vars(CalcStep(1) \/ CalcFinish(1)), with the enabling condition of   *)
(* the two steps, pc[1] = "loop", written out.                             *)
CallRuns ==
    \/ []<>(pc[1] # "loop")
    \/ []<><<CalcStep(1) \/ CalcFinish(1)>>_vars

SpecSeqFair == SpecSeq /\ CallRuns

(* an evaluation at any date followed by the uncertainty lookup *)
UncFiles == {TiltedFile, Dipole6000File, EmptyFile}

UncTimes ==
    {WMM_MODEL_2015_LOWER - 1, WMM_MODEL_2015_LOWER, WMM_MODEL_2015_UPPER - 1,
     WMM_MODEL_2020_LOWER, WMM_MODEL_2020_LOWER + 1, WMM_MODEL_2020_UPPER - 1,
     WMM_MODEL_2025_LOWER, WMM_MODEL_2025_LOWER + 1,
     WMM_MODEL_2025_UPPER, WMM_MODEL_2025_UPPER + 1}

UncArgs ==
    {MkArgs(la, 0, 0, ti, TRUE, FALSE) : la \in {0, 55}, ti \in UncTimes}

NextUnc ==
    \/ \E f \in UncFiles, hr \in BOOLEAN : FirstLoad(f, hr)
    \/ \E a \in UncArgs : CalcBegin(1, a)
    \/ CalcStep(1)
    \/ CalcFinish(1)
    \/ CalcUncertainty(1)
    \/ Return(1)

SpecUnc == Init /\ [][NextUnc]_vars

(* ----------------------------- subscripts ------------------------------ *)
(* a subscripted access: the array, its row (or only) subscript and its    *)
(* column subscript (0 for the one-dimensional arrays)                     *)
At2(tab, i, j) == [tab |-> tab, i |-> i, j |-> j]

At1(tab, i) == [tab |-> tab, i |-> i, j |-> 0]

(* lines 78-85: the cells a record is stored in *)
StoreAccess(r) ==
    IF r.m <= r.n
    THEN {At2("c", r.m, r.n), At2("cd", r.m, r.n)}
             \cup (IF r.m # 0 THEN {At2("c", r.n, r.m - 1), At2("cd", r.n, r.m - 1)} ELSE {})
    ELSE {}

(* lines 92-93 and 124: the cells set outside the normalisation loop *)
NormFixedAccess == {At1("snorm", 0), At1("fm", 0), At2("k", 1, 1)}

(* lines 96-121: the pass (n, m) of the normalisation *)
NormAccess(n, m, sz) ==
    {At1("snorm", n), At1("snorm", n - 1), At2("k", m, n),
     At1("snorm", n + m * sz), At2("c", m, n), At2("cd", m, n),
     At1("fn", n), At1("fm", n)}
        \cup (IF m > 0
              THEN {At1("snorm", n + (m - 1) * sz), At2("c", n, m - 1), At2("cd", n, m - 1)}
              ELSE {})

(* lines 173-176 and 222-225: the constants and the longitude multiples *)
PrepareAccess(maxord) ==
    {At1("sp", 0), At1("cp", 0), At1("pp", 0), At2("dp", 0, 0), At1("sp", 1), At1("cp", 1)}
        \cup UNION {{At1("sp", m), At1("cp", m), At1("sp", m - 1), At1("cp", m - 1)} :
                        m \in 2 .. maxord}

(* lines 240-257: the Legendre step of the pass (n, m) *)
LegendreAccess(n, m, sz) ==
    IF n = m
    THEN {At1("p", n + m * sz), At1("p", n - 1 + (m - 1) * sz),
          At2("dp", m, n), At2("dp", m - 1, n - 1)}
    ELSE IF n = 1 /\ m = 0
    THEN {At1("p", n + m * sz), At1("p", n - 1 + m * sz), At2("dp", m, n), At2("dp", m, n - 1)}
    ELSE IF n > 1 /\ n # m
    THEN {At1("p", n + m * sz), At1("p", n - 1 + m * sz), At1("p", n - 2 + m * sz),
          At2("k", m, n), At2("dp", m, n), At2("dp", m, n - 1), At2("dp", m, n - 2)}
    ELSE {}

(* lines 259-290: the rest of the pass (n, m); pole is st == 0.0 *)
SumAccess(n, m, sz, pole) ==
    {At2("tc", m, n), At2("c", m, n), At2("cd", m, n), At1("p", n + m * sz),
     At1("cp", m), At1("sp", m), At2("dp", m, n), At1("fm", m), At1("fn", n)}
        \cup (IF m # 0 THEN {At2("tc", n, m - 1), At2("c", n, m - 1), At2("cd", n, m - 1)} ELSE {})
        \cup (IF pole /\ m = 1
              THEN {At1("pp", n), At1("pp", n - 1), At1("fm", m)}
                       \cup (IF n = 1 THEN {} ELSE {At1("pp", n - 2), At2("k", m, n)})
              ELSE {})

LoopAccess(n, m, sz, pole) == LegendreAccess(n, m, sz) \cup SumAccess(n, m, sz, pole)

(* any file loaded into a fresh struct, then evaluations at the pole and   *)
(* off it                                                                  *)
BoundsArgs ==
    {MkArgs(90, 0, 0, Epoch, TRUE, FALSE), MkArgs(0, 0, 0, Epoch, TRUE, FALSE)}

NextBounds ==
    \/ \E f \in LoadFiles, hr \in BOOLEAN : FirstLoad(f, hr)
    \/ \E a \in BoundsArgs : CalcBegin(1, a)
    \/ CalcStep(1)
    \/ CalcFinish(1)
    \/ Return(1)

SpecBounds == Init /\ [][NextBounds]_vars

(* ------------------------------ claims -------------------------------- *)
Done(t) == pc[t] = "done"

(* a finished call that passed the date check *)
Evaluated(t) == Done(t) /\ ~DateRejected(at_call[t], args[t])

(* C1: an evaluate call leaves every field of the Model, the table p       *)
(* included, as it found it.                                               *)
C1_ModelNeverMutated == \A t \in Threads : Done(t) => geo_mag = at_call[t]

(* C2: every call, whatever runs beside it, returns the FieldResult and    *)
(* the code it returns when it runs alone on the loaded Model.             *)
C2_SameAsAlone ==
    \A t \in Threads :
        Done(t) => LET alone == geomag_calculate(at_load, args[t])
                   IN  result[t] = alone.res /\ ret[t] = alone.ret

(* C3: with allowOutsideLifespan = false the call fails (-1) exactly when  *)
(* dt = time - epoch is below 0 or above 5 years; with the flag true and   *)
(* strictZonePolicy = false it succeeds for every dt.                      *)
C3_ValidityCheck ==
    \A t \in Threads :
        Done(t) =>
            LET dt == args[t].time - geo_mag.epoch
            IN  /\ ~args[t].allow => (ret[t] = -1 <=> (dt < 0 \/ dt > 5 * Scale))
                /\ (args[t].allow /\ ~args[t].raise) => ret[t] = 0

C3_Witness ==
    \E t \in Threads :
        /\ Done(t) /\ ~args[t].allow
        /\ args[t].time - geo_mag.epoch = 5 * Scale
        /\ ret[t] # -1

(* C4: blackout iff H < 2000, caution iff 2000 <= H < 6000, neither iff    *)
(* H >= 6000; never both; the zone is monotonic in H.                      *)
ZoneSamples == {0, 1000, 1999, 2000, 2001, 3000, 5999, 6000, 6001, 50000}

ZoneRank(blackout, caution) == IF blackout THEN 0 ELSE IF caution THEN 1 ELSE 2

C4_ZoneClassification ==
    \A t \in Threads :
        Evaluated(t) =>
            LET r == result[t]
                rank == ZoneRank(r.in_blackout_zone, r.in_caution_zone)
            IN  /\ r.in_blackout_zone <=> r.h < 2000
                /\ r.in_caution_zone <=> (2000 <= r.h /\ r.h < 6000)
                /\ ~(r.in_blackout_zone /\ r.in_caution_zone)
                /\ \A s \in ZoneSamples :
                       LET srank == ZoneRank(InBlackout(s), InCaution(s))
                       IN  /\ s <= r.h => srank <= rank
                           /\ s >= r.h => srank >= rank

C4_Witness ==
    \E t \in Threads :
        /\ Evaluated(t) /\ result[t].h = 6000
        /\ ~result[t].in_blackout_zone /\ ~result[t].in_caution_zone

(* C5: strict policy returns -2 iff H < 2000, -3 iff 2000 <= H < 6000 and  *)
(* 0 otherwise; the advisory policy returns 0 and sets the flags; a zone   *)
(* condition is reported one way or the other.                             *)
C5_ZonePolicy ==
    \A t \in Threads :
        Evaluated(t) =>
            LET r == result[t]
            IN  /\ args[t].raise =>
                       /\ ret[t] = -2 <=> r.h < 2000
                       /\ ret[t] = -3 <=> (2000 <= r.h /\ r.h < 6000)
                       /\ ret[t] = 0 <=> r.h >= 6000
                /\ ~args[t].raise =>
                       /\ ret[t] = 0
                       /\ r.h < 2000 => r.in_blackout_zone
                       /\ (2000 <= r.h /\ r.h < 6000) => r.in_caution_zone
                /\ r.h < 6000 =>
                       \/ ret[t] \in {-2, -3}
                       \/ r.in_blackout_zone \/ r.in_caution_zone

C5_Witness ==
    \E t \in Threads :
        Evaluated(t) /\ args[t].raise /\ result[t].h = 2000 /\ ret[t] = -3

(* C6: grid variation is defined (not -999) iff |latitude| >= 55, and a    *)
(* defined grid variation has magnitude at most 180.                       *)
C6_GridVariationDefined ==
    \A t \in Threads :
        (Evaluated(t) /\ args[t].glat \in -90 .. 90 /\ args[t].glon \in -180 .. 180) =>
            /\ result[t].gv # -999 <=> Abs(args[t].glat) >= 55
            /\ result[t].gv # -999 => Abs(result[t].gv) <= 180

C6_Witness ==
    \E t \in Threads :
        /\ Evaluated(t) /\ args[t].glat = 55 /\ args[t].glon = -180
        /\ result[t].d > 0
        /\ result[t].gv = result[t].d - 180

(* C7 as claimed: the grid variation lies in the half-open interval        *)
(* (-180, 180], the value -180 is never returned.                          *)
C7_HalfOpenInterval ==
    \A t \in Threads :
        (Evaluated(t) /\ Abs(args[t].glat) >= 55) =>
            (-180 < result[t].gv /\ result[t].gv <= 180)

(* C7 as amended: the grid variation is D - lon (north) or D + lon (south) *)
(* brought into the closed interval [-180, 180] by one adjustment of 360;  *)
(* the values -180 and 180 themselves are returned unadjusted.             *)
C7_ClosedInterval ==
    \A t \in Threads :
        (Evaluated(t) /\ Abs(args[t].glat) >= 55) =>
            LET raw == IF args[t].glat > 0 THEN result[t].d - args[t].glon
                       ELSE result[t].d + args[t].glon
                gv  == result[t].gv
            IN  /\ -180 <= gv /\ gv <= 180
                /\ gv - raw \in {-360, 0, 360}
                /\ raw \in {-180, 180} => gv = raw

C7_Witness ==
    \E t \in Threads :
        Evaluated(t) /\ Abs(args[t].glat) >= 55 /\ result[t].gv = -180

(* C8: a failed geomag_init leaves the caller's struct as it found it.     *)
C8_NoPartialModel == (last.gen > 0 /\ last.rc = -1) => geo_mag = last.before

(* the records the last load consumed *)
ReadIdx == 1 .. last.nread

BeforeEndMarker(i) == \A j \in 1 .. i : last.file.recs[j].n # EndMarker

(* C9 as claimed: every record read before the end marker that has m > n,  *)
(* m < 0, or n or m above the table bound fails the load.                  *)
C9_CorruptAlwaysFails ==
    last.gen > 0 =>
        \A i \in ReadIdx :
            LET r == last.file.recs[i]
            IN  (/\ r.ok /\ BeforeEndMarker(i)
                 /\ (r.m > r.n \/ r.m < 0 \/ r.n > geo_mag.maxord \/ r.m > geo_mag.maxord))
                    => last.rc = -1

(* C9 as amended: a record read before the end marker with m <= maxDegree  *)
(* and (m > n, m < 0 or n > maxDegree) fails the load at that record and   *)
(* is not stored; a record with m > maxDegree ends the reading without     *)
(* error and is not stored either.                                         *)
C9_CorruptFailsUnlessTruncating ==
    last.gen > 0 =>
        \A i \in ReadIdx :
            LET r == last.file.recs[i]
            IN  (r.ok /\ BeforeEndMarker(i)) =>
                    /\ (r.m <= geo_mag.maxord
                        /\ (r.m > r.n \/ r.m < 0 \/ r.n > geo_mag.maxord))
                           => (last.rc = -1 /\ i = last.nread /\ i \notin last.stored)
                    /\ r.m > geo_mag.maxord
                           => (last.rc = 0 /\ i = last.nread /\ i \notin last.stored)

C9_Witness ==
    /\ last.gen > 1 /\ last.rc = -1 /\ last.nread > 1
    /\ last.stored # {}
    /\ LET r == last.file.recs[last.nread]
       IN  r.ok /\ r.m > r.n /\ r.m >= 0 /\ r.m <= geo_mag.maxord

(* the file cut before its first end-marker record *)
FirstEndMarker(recs) ==
    IF \E i \in 1 .. Len(recs) : recs[i].ok /\ recs[i].n = EndMarker
    THEN CHOOSE i \in 1 .. Len(recs) :
             /\ recs[i].ok /\ recs[i].n = EndMarker
             /\ \A j \in 1 .. (i - 1) : ~(recs[j].ok /\ recs[j].n = EndMarker)
    ELSE Len(recs) + 1

CutAtEndMarker(f) == [f EXCEPT !.recs = SubSeq(f.recs, 1, FirstEndMarker(f.recs) - 1)]

(* C10: the load of a file equals the load of the records that precede its *)
(* first n = 9999 record: same Model, same outcome; nothing behind the     *)
(* marker is read.                                                         *)
C10_EndMarkerStops ==
    last.gen > 0 =>
        LET cut == geomag_init(last.before, CutAtEndMarker(last.file), last.hr)
        IN  /\ geo_mag = cut.geo
            /\ last.rc = cut.rc
            /\ last.nread <= FirstEndMarker(last.file.recs)
            /\ \A i \in last.stored : i < FirstEndMarker(last.file.recs)

C10_Witness ==
    /\ last.gen > 1 /\ last.rc = 0
    /\ Len(last.file.recs) > 1
    /\ last.file.recs[1].n = EndMarker
    /\ last.file.recs[2] = Rec(1, 1, -300, 900, 0, 0)
    /\ last.nread = 1
    /\ geo_mag.c[1][1] = 0

(* the file cut after its first j records *)
PrefixFile(f, j) == [f EXCEPT !.recs = SubSeq(f.recs, 1, j)]

(* C11: a record with m > maxDegree that the loader reads ends the reading *)
(* without error: the load returns 0, every earlier record is stored and   *)
(* the Model equals the one loaded from the earlier records alone, the     *)
(* record itself is not stored and nothing after it is read.               *)
C11_TruncationSucceeds ==
    last.gen > 0 =>
        \A i \in ReadIdx :
            LET r == last.file.recs[i]
            IN  (r.ok /\ r.m > geo_mag.maxord) =>
                    /\ last.rc = 0
                    /\ last.nread = i
                    /\ last.stored = 1 .. (i - 1)
                    /\ geo_mag = geomag_init(last.before, PrefixFile(last.file, i - 1), last.hr).geo

C11_Witness ==
    /\ last.gen > 1 /\ last.rc = 0
    /\ Len(last.file.recs) = 2 /\ last.nread = 2
    /\ last.file.recs[2].ok
    /\ last.file.recs[2].n # EndMarker
    /\ last.file.recs[2].m > geo_mag.maxord
    /\ last.stored = {1}
    /\ geo_mag.c[0][1] # 0

(* the Schmidt semi-normalisation factor of degree n and order m:          *)
(* S(n,0) = S(n-1,0) * (2n-1)/n, S(n,m) = S(n,m-1) * sqrt((n-m+1)*j/(n+m)) *)
(* with j = 2 for m = 1 and j = 1 above                                    *)
RECURSIVE SchmidtFactor(_, _)
SchmidtFactor(n, m) ==
    IF n = 0 THEN Scale
    ELSE IF m = 0 THEN TDiv(SchmidtFactor(n - 1, 0) * (2 * n - 1), n)
    ELSE FMul(SchmidtFactor(n, m - 1),
              FSqrt(TDiv((n - m + 1) * (IF m = 1 THEN 2 ELSE 1) * Scale, n + m)))

(* the record of the loaded file that supplies the coefficients (n, m):    *)
(* the last one stored, or a record of zeros                               *)
StoredRecord(n, m) ==
    LET is == {i \in last.stored : last.file.recs[i].n = n /\ last.file.recs[i].m = m}
    IN  IF is = {} THEN Rec(n, m, 0, 0, 0, 0)
        ELSE last.file.recs[CHOOSE i \in is : \A j \in is : j <= i]

(* g holds the converted coefficients of the loaded file *)
Normalized(g) ==
    \A n \in 1 .. g.maxord :
        \A m \in 0 .. n :
            LET r == StoredRecord(n, m)
                f == SchmidtFactor(n, m)
            IN  /\ g.c[m][n] = FMul(r.gnm, f)
                /\ g.cd[m][n] = FMul(r.dgnm, f)
                /\ m > 0 => /\ g.c[n][m - 1] = FMul(r.hnm, f)
                            /\ g.cd[n][m - 1] = FMul(r.dhnm, f)

Visited(t, n, m) ==
    /\ pc[t] = "loop"
    /\ n \in 1 .. geo_mag.maxord /\ m \in 0 .. n
    /\ (n < loc[t].n \/ (n = loc[t].n /\ m < loc[t].m))

(* C13: a call leaves c, cd, k, fn, fm, epoch and maxDegree of the Model   *)
(* as it found them, during and after its loop; the time-adjusted value    *)
(* g + dt * gDot of every pair visited is in the call's own table tc.      *)
C13_CoefficientsUnchanged ==
    \A t \in Threads :
        pc[t] \in {"loop", "done"} =>
            /\ geo_mag.c = at_call[t].c /\ geo_mag.cd = at_call[t].cd
            /\ geo_mag.k = at_call[t].k
            /\ geo_mag.fn = at_call[t].fn /\ geo_mag.fm = at_call[t].fm
            /\ geo_mag.epoch = at_call[t].epoch
            /\ geo_mag.maxord = at_call[t].maxord /\ geo_mag.size = at_call[t].size
            /\ \A n \in 1 .. geo_mag.maxord : \A m \in 0 .. n :
                   Visited(t, n, m) =>
                       LET dt == args[t].time - at_call[t].epoch
                       IN  /\ loc[t].tc[m][n] = at_call[t].c[m][n] + FMul(at_call[t].cd[m][n], dt)
                           /\ m > 0 => loc[t].tc[n][m - 1] =
                                  at_call[t].c[n][m - 1] + FMul(at_call[t].cd[n][m - 1], dt)

C13_Witness ==
    \E t \in Threads :
        /\ Visited(t, 1, 1)
        /\ loc[t].tc[1][0] # geo_mag.c[1][0]
        /\ loc[t].tc[0][1] # geo_mag.c[0][1]
        /\ geo_mag.c = at_load.c

(* geomag_calculate_uncertainty has returned to the caller of thread t *)
UncDone(t) == uret[t] # NoRet

(* the windows whose membership condition holds at a time *)
WindowsAt(time) ==
    {w \in {"2015", "2020", "2025"} :
        \/ w = "2015" /\ InWindow2015(time)
        \/ w = "2020" /\ InWindow2020(time)
        \/ w = "2025" /\ InWindow2025(time)}

(* C14: at most one window condition holds at the time of a result, and    *)
(* whichever holding window is tested first, the constants returned are    *)
(* the same.                                                               *)
C14_WindowsDisjoint ==
    \A t \in Threads :
        UncDone(t) =>
            /\ Cardinality(WindowsAt(result[t].time)) <= 1
            /\ \A w \in WindowsAt(result[t].time) :
                   uncertainty[t] = ErrorModel(w, result[t].is_high_resolution, result[t].h)

(* C15: the lookup fails (-1) exactly when the time of the result is below *)
(* 2015 or above 2030; inside [2015, 2030] it returns 0 and has written    *)
(* all seven fields.                                                       *)
C15_NoUncertaintyModel ==
    \A t \in Threads :
        UncDone(t) =>
            LET time == result[t].time
                u == uncertainty[t]
            IN  /\ uret[t] = -1 <=> (time < 2015 * Scale \/ time > 2030 * Scale)
                /\ (2015 * Scale <= time /\ time <= 2030 * Scale) =>
                       /\ uret[t] = 0
                       /\ Indet \notin {u.x, u.y, u.z, u.h, u.f, u.i, u.d}

C15_Witness ==
    \E t \in Threads :
        /\ UncDone(t) /\ result[t].time = 2015 * Scale
        /\ uret[t] = 0
        /\ uncertainty[t].x = 138 /\ uncertainty[t].d # Indet

(* the tolerance of the grid the components are computed on: the sines    *)
(* carry three decimals and each product is cut to a whole nT              *)
Tolerance(f) == TDiv(f, 200) + 3

(* C16: on valid inputs a successful call returns F within tolerance of    *)
(* sqrt(X^2 + Y^2 + Z^2) and H within tolerance of sqrt(X^2 + Y^2).        *)
C16_SelfConsistent ==
    \A t \in Threads :
        (Evaluated(t) /\ ret[t] = 0) =>
            LET r == result[t]
            IN  /\ Abs(ISqrt(r.x * r.x + r.y * r.y + r.z * r.z) - r.f) <= Tolerance(r.f)
                /\ Abs(ISqrt(r.x * r.x + r.y * r.y) - r.h) <= Tolerance(r.f)

C16_Witness ==
    \E t \in Threads :
        /\ Evaluated(t) /\ ret[t] = 0
        /\ result[t].f > 1000
        /\ result[t].x # 0 /\ result[t].y # 0 /\ result[t].z # 0
        /\ result[t].h # result[t].f

(* the pair the main loop visits after (n, m) *)
NextPair(n, m) == IF m < n THEN << n, m + 1 >> ELSE << n + 1, 0 >>

(* the steps of the call of thread t follow the loop order: the first pass *)
(* is (1, 0), each pass (n, m) has 1 <= n <= maxDegree and 0 <= m <= n and *)
(* is followed by the next pair, and the call leaves the loop from the     *)
(* pair (maxDegree + 1, 0)                                                 *)
LoopOrder(t) ==
    /\ (pc[t] = "idle" /\ pc'[t] = "loop") =>
           << loc'[t].n, loc'[t].m >> = << 1, 0 >>
    /\ (pc[t] = "loop" /\ pc'[t] = "loop" /\ loc'[t] # loc[t]) =>
           /\ 1 <= loc[t].n /\ loc[t].n <= geo_mag.maxord
           /\ 0 <= loc[t].m /\ loc[t].m <= loc[t].n
           /\ << loc'[t].n, loc'[t].m >> = NextPair(loc[t].n, loc[t].m)
    /\ (pc[t] = "loop" /\ pc'[t] # "loop") =>
           /\ pc'[t] = "done"
           /\ << loc[t].n, loc[t].m >> = << geo_mag.maxord + 1, 0 >>

(* C17: a call visits the pairs (n, m), 1 <= n <= maxDegree, 0 <= m <= n,  *)
(* once each in increasing order, and a call in its loop reaches its end.  *)
C17_BoundedLoop ==
    /\ [][\A t \in Threads : LoopOrder(t)]_vars
    /\ \A t \in Threads : (pc[t] = "loop") ~> (pc[t] = "done")

C17_Witness ==
    \E t \in Threads :
        /\ pc[t] = "loop"
        /\ geo_mag.maxord = WMM_SIZE_HIGH_RESOLUTION
        /\ << loc[t].n, loc[t].m >> = << geo_mag.maxord + 1, 0 >>
        /\ \A n \in 1 .. geo_mag.maxord : \A m \in 0 .. n :
               loc[t].tc[m][n] # Indet

(* the model g with every cell of p but p[0] holding other content *)
OtherScratch(g) ==
    [g EXCEPT !.p = [i \in Flat |-> IF i = 0 THEN g.p[0] ELSE 2 * Scale]]

(* C18: p[0] holds 1 after a successful load and no call changes it; a     *)
(* call returns what it returns on the loaded Model with any other content *)
(* in the cells p[1..], whatever calls ran before it: it reads no cell of  *)
(* p but p[0] before writing it.                                           *)
C18_SequentialIndependence ==
    /\ (last.gen > 0 /\ last.rc = 0) => geo_mag.p[0] = Scale
    /\ \A t \in Threads :
           Done(t) =>
               LET other == geomag_calculate(OtherScratch(at_load), args[t])
               IN  result[t] = other.res /\ ret[t] = other.ret

C18_Witness ==
    \E t \in Threads :
        /\ Evaluated(t)
        /\ at_call[t].p # at_load.p
        /\ at_call[t].p # geo_mag.p
        /\ result[t].f > 0
        /\ result[t] = geomag_calculate(at_load, args[t]).res

(* C19: after a successful load every cell of the packed tables holds one  *)
(* coefficient, multiplied once by the Schmidt factor of its degree and    *)
(* order: the cell [i][j] with i <= j holds g(j, i), the cell [i][j] with  *)
(* i > j holds h(i, j + 1); so do the cells of the rate table.             *)
C19_PackedTable ==
    (last.gen > 0 /\ last.rc = 0) =>
        \A i \in 0 .. geo_mag.maxord :
            \A j \in 0 .. geo_mag.maxord :
                IF i <= j
                THEN LET r == StoredRecord(j, i)
                     IN  /\ geo_mag.c[i][j] = FMul(r.gnm, SchmidtFactor(j, i))
                         /\ geo_mag.cd[i][j] = FMul(r.dgnm, SchmidtFactor(j, i))
                ELSE LET r == StoredRecord(i, j + 1)
                     IN  /\ geo_mag.c[i][j] = FMul(r.hnm, SchmidtFactor(i, j + 1))
                         /\ geo_mag.cd[i][j] = FMul(r.dhnm, SchmidtFactor(i, j + 1))

C19_Witness ==
    /\ last.gen > 1 /\ last.rc = 0 /\ last.hr
    /\ last.file = FullFile(WMM_SIZE_HIGH_RESOLUTION)
    /\ last.stored = 1 .. Len(last.file.recs)
    /\ \A i \in 0 .. geo_mag.maxord : \A j \in 1 .. geo_mag.maxord :
           geo_mag.c[i][j] # 0 /\ geo_mag.c[j][j - 1] # 0
    /\ geo_mag.c[2][2] # last.file.recs[5].gnm

(* the records of a file are readable and ordered by increasing n, then    *)
(* increasing m                                                            *)
Ordered(recs) ==
    /\ \A i \in 1 .. Len(recs) : recs[i].ok
    /\ \A i \in 1 .. Len(recs) : \A j \in (i + 1) .. Len(recs) :
           \/ recs[i].n < recs[j].n
           \/ recs[i].n = recs[j].n /\ recs[i].m < recs[j].m

(* record i has a degree above maxDegree and no end marker is at or before *)
(* it                                                                      *)
HigherDegreeAt(recs, i) ==
    /\ recs[i].ok /\ recs[i].n > geo_mag.maxord
    /\ \A j \in 1 .. i : recs[j].n # EndMarker

(* a record with 0 <= m <= n <= maxDegree *)
ValidRecord(r) == r.ok /\ 0 <= r.m /\ r.m <= r.n /\ r.n <= geo_mag.maxord

(* a record read with n > maxDegree and m <= maxDegree fails the load *)
HigherDegreeRecordFails ==
    \A i \in ReadIdx :
        (HigherDegreeAt(last.file.recs, i) /\ last.file.recs[i].m <= geo_mag.maxord)
            => (last.rc = -1 /\ last.nread = i /\ i \notin last.stored)

(* C20 as claimed: a record read with n > maxDegree and m <= maxDegree     *)
(* fails the load, and no ordered file holding a degree above maxDegree    *)
(* before any end marker loads successfully.                               *)
C20_HigherDegreeNeverLoads ==
    (last.gen > 0 /\ last.file.exists /\ last.file.hdr = 3) =>
        /\ HigherDegreeRecordFails
        /\ (/\ Ordered(last.file.recs)
            /\ \E i \in 1 .. Len(last.file.recs) : HigherDegreeAt(last.file.recs, i))
               => last.rc # 0

(* C20 as amended: a record read with n > maxDegree and m <= maxDegree     *)
(* fails the load, and an ordered file does not load when the first record *)
(* of a degree above maxDegree has m <= maxDegree and follows valid        *)
(* records only.                                                           *)
C20_HigherDegreeFails ==
    (last.gen > 0 /\ last.file.exists /\ last.file.hdr = 3) =>
        /\ HigherDegreeRecordFails
        /\ \A i \in 1 .. Len(last.file.recs) :
               (/\ Ordered(last.file.recs)
                /\ HigherDegreeAt(last.file.recs, i)
                /\ last.file.recs[i].m <= geo_mag.maxord
                /\ \A j \in 1 .. (i - 1) : ValidRecord(last.file.recs[j]))
                   => (last.rc = -1 /\ last.nread = i /\ last.stored = 1 .. (i - 1))

C20_Witness ==
    /\ last.gen > 1 /\ ~last.hr /\ last.rc = -1
    /\ last.file = FullFile(WMM_SIZE_HIGH_RESOLUTION)
    /\ last.nread = (WMM_SIZE_STANDARD * (WMM_SIZE_STANDARD + 3)) \div 2 + 1
    /\ last.file.recs[last.nread].n = WMM_SIZE_STANDARD + 1
    /\ last.file.recs[last.nread].m = 0
    /\ last.stored = 1 .. (last.nread - 1)

(* the subscripts of an access are those of a model of degree maxord: rows *)
(* and columns in 0 .. maxord, flat subscripts of p and snorm in           *)
(* 0 .. size * size - 1                                                    *)
InBounds(a, maxord, sz) ==
    IF a.tab \in {"p", "snorm"}
    THEN 0 <= a.i /\ a.i < sz * sz
    ELSE 0 <= a.i /\ a.i <= maxord /\ 0 <= a.j /\ a.j <= maxord

(* the passes (n, m) the normalisation of the last successful load ran:    *)
(* the cells of snorm it wrote, as memcpy left them in p                   *)
NormPasses ==
    {i \in Flat \ {0} : at_load.p[i] # Indet}

(* C21: with maxDegree the standard or the high-resolution degree, every   *)
(* record stored by a load, every pass of its normalisation and every pass *)
(* of an evaluation uses subscripts in 0 .. maxDegree on c, cd, k, tc, dp, *)
(* sp, cp, pp, fn, fm and flat subscripts in 0 .. size * size - 1 on p and *)
(* snorm.                                                                  *)
C21_SubscriptsInBounds ==
    last.gen > 0 =>
        LET mo == geo_mag.maxord
            sz == geo_mag.size
        IN  /\ mo \in {WMM_SIZE_STANDARD, WMM_SIZE_HIGH_RESOLUTION} /\ sz = mo + 1
            /\ \A i \in last.stored :
                   \A a \in StoreAccess(last.file.recs[i]) : InBounds(a, mo, sz)
            /\ last.rc = 0 =>
                   /\ \A a \in NormFixedAccess : InBounds(a, mo, sz)
                   /\ \A i \in NormPasses :
                          LET n == i % sz
                              m == i \div sz
                          IN  /\ 1 <= n /\ n <= mo /\ 0 <= m /\ m <= n
                              /\ \A a \in NormAccess(n, m, sz) : InBounds(a, mo, sz)
            /\ \A t \in Threads :
                   pc[t] = "loop" =>
                       /\ \A a \in PrepareAccess(mo) : InBounds(a, mo, sz)
                       /\ loc[t].n <= mo =>
                              \A a \in LoopAccess(loc[t].n, loc[t].m, sz, loc[t].st = 0) :
                                  InBounds(a, mo, sz)

C21_Witness ==
    \E t \in Threads :
        /\ pc[t] = "loop" /\ loc[t].st = 0
        /\ last.hr /\ last.file = FullFile(WMM_SIZE_HIGH_RESOLUTION)
        /\ last.stored = 1 .. Len(last.file.recs)
        /\ loc[t].n = geo_mag.maxord /\ loc[t].m = geo_mag.maxord
        /\ Cardinality(NormPasses) = Len(last.file.recs)
        /\ At1("p", geo_mag.size * geo_mag.size - 1)
               \in LoopAccess(loc[t].n, loc[t].m, geo_mag.size, TRUE)

=============================================================================
